---------------------------- MODULE Spec2Model ----------------------------
(***************************************************************************)
(* A model of the nowcast repository:                                      *)
(*   - src/doc/plos/code/analyze.py : class Analysis (series extraction,   *)
(*     naive and sensor-median nowcasts, accuracy metrics, sensor heatmap) *)
(*   - src/src/util/database.py     : class NowcastDatabase (upsert into   *)
(*     the `nowcasts` table, commit discipline of connect/disconnect)      *)
(*                                                                         *)
(* wILI values are modelled as integers (a fixed-point reading of the      *)
(* percentage); means, medians and quotients are exact rationals, so the   *)
(* only floating-point behaviour kept is the one the claims are about:     *)
(* the NaN/inf results of numpy on empty or zero denominators, and the     *)
(* 32-bit precision of the table's float columns.                          *)
(***************************************************************************)
EXTENDS Integers, Sequences, FiniteSets, TLC

VARIABLES
  data,       \* Analysis.data: dataset key -> list of rows (analyze.py:37)
  call,       \* the Analysis method most recently called, with its arguments
  ret,        \* what that call returned (or the exception it raised)
  test_mode,  \* NowcastDatabase.test_mode (database.py:65)
  cnx,        \* state of self.cnx: "none", "open" or "closed"
  cur,        \* state of self.cur: "none", "open" or "closed"
  committed,  \* rows of `nowcasts` that are committed in the database
  pending,    \* rows of `nowcasts` as seen by the open connection
  nextId,     \* the table's auto_increment counter
  commits,    \* number of cnx.commit() calls made so far
  calls,      \* connector calls made by the most recent database method
  lastOp,     \* name of the most recent database method
  passed      \* (epiweek, location) -> (value, stdev) last passed to insert
              \* on the current connection

vars == <<data, call, ret, test_mode, cnx, cur, committed, pending, nextId,
          commits, calls, lastOp, passed>>

anVars == <<data, call, ret>>
dbVars == <<test_mode, cnx, cur, committed, pending, nextId, commits, calls,
            lastOp, passed>>

-----------------------------------------------------------------------------
(* Generic helpers *)

Range(s) == {s[i] : i \in DOMAIN s}

EmptyDict == [x \in {} |-> 0]

None == [none |-> TRUE]

RECURSIVE Pow2(_)
Pow2(k) == IF k = 0 THEN 1 ELSE 2 * Pow2(k - 1)

Abs(x) == IF x < 0 THEN -x ELSE x

Min(S) == CHOOSE x \in S : \A y \in S : x <= y

Max(S) == CHOOSE x \in S : \A y \in S : x >= y

\* sorted(...) of a set of integers: the increasing sequence of its elements
RECURSIVE sorted(_)
sorted(S) == IF S = {} THEN <<>> ELSE <<Min(S)>> \o sorted(S \ {Min(S)})

-----------------------------------------------------------------------------
(* Floats.  A Python/numpy float is modelled as an exact number             *)
(*   [k |-> "fin", n |-> num, d |-> den, r |-> root]  =  (num/den)^(1/root) *)
(* with den > 0, num/den in lowest terms and root 1 or 2 (2: the value    *)
(* is a square root, as np.sqrt returns), or as one of the two special     *)
(* values NaN and inf that numpy yields instead of raising.                *)

RECURSIVE Gcd(_, _)
Gcd(a, b) == IF b = 0 THEN a ELSE Gcd(b, a % b)

Fin(n, d) ==
  LET g == Gcd(Abs(n), d)
  IN  [k |-> "fin", n |-> n \div g, d |-> d \div g, r |-> 1]

\* float(text) of a decimal integer field, as load_everything converts it
float(v) == Fin(v, 1)

NaN == [k |-> "nan", n |-> 0, d |-> 1, r |-> 1]

Inf == [k |-> "inf", n |-> 0, d |-> 1, r |-> 1]

FSub(x, y) == Fin(x.n * y.d - y.n * x.d, x.d * y.d)

FAdd(x, y) == Fin(x.n * y.d + y.n * x.d, x.d * y.d)

FAbs(x) == Fin(Abs(x.n), x.d)

FSquare(x) == Fin(x.n * x.n, x.d * x.d)

RECURSIVE FSum(_)
FSum(xs) == IF xs = <<>> THEN Fin(0, 1) ELSE FAdd(Head(xs), FSum(Tail(xs)))

\* np.mean: NaN (with a RuntimeWarning, no exception) for an empty array
np_mean(xs) ==
  IF xs = <<>> THEN NaN
  ELSE LET t == FSum(xs) IN Fin(t.n, t.d * Len(xs))

\* np.sqrt of a non-negative number or NaN
np_sqrt(x) == IF x.k = "fin" THEN [x EXCEPT !.r = 2] ELSE x

\* x / y on numpy floats of the same root: no ZeroDivisionError, but
\* nan for 0/0 or a NaN operand, inf for a positive number over 0
np_div(x, y) ==
  IF x.k = "nan" \/ y.k = "nan" THEN NaN
  ELSE IF y.n = 0 THEN (IF x.n = 0 THEN NaN ELSE Inf)
  ELSE LET q == Fin(x.n * y.d, x.d * y.n) IN [q EXCEPT !.r = x.r]

\* the sequence xs sorted in increasing order (insertion sort)
FLess(x, y) == x.n * y.d < y.n * x.d

RECURSIVE FInsert(_, _)
FInsert(x, xs) ==
  IF xs = <<>> THEN <<x>>
  ELSE IF FLess(Head(xs), x) THEN <<Head(xs)>> \o FInsert(x, Tail(xs))
  ELSE <<x>> \o xs

RECURSIVE FSort(_)
FSort(xs) == IF xs = <<>> THEN <<>> ELSE FInsert(Head(xs), FSort(Tail(xs)))

\* np.median of a non-empty list: the middle value of the sorted list, the
\* mean of the two middle values for an even count
np_median(xs) ==
  LET s == FSort(xs)
      h == Len(xs) \div 2
  IN  IF Len(xs) % 2 = 1 THEN s[h + 1]
      ELSE LET t == FAdd(s[h], s[h + 1]) IN Fin(t.n, t.d * 2)

-----------------------------------------------------------------------------
(* Epiweeks (delphi.utils.epiweek): year*100 + week, MMWR weeks *)

\* weekday of January 1 of year y, 0 = Sunday
Jan1Weekday(y) ==
  (1 + 5 * ((y - 1) % 4) + 4 * ((y - 1) % 100) + 6 * ((y - 1) % 400)) % 7

IsLeap(y) == (y % 4 = 0 /\ y % 100 # 0) \/ y % 400 = 0

\* an MMWR year has 53 weeks when it starts on a Wednesday, or is a leap
\* year starting on a Tuesday
WeeksInYear(y) ==
  IF Jan1Weekday(y) = 3 \/ (IsLeap(y) /\ Jan1Weekday(y) = 2) THEN 53 ELSE 52

NextWeek(ew) ==
  LET y == ew \div 100
      w == ew % 100
  IN  IF w < WeeksInYear(y) THEN ew + 1 ELSE (y + 1) * 100 + 1

PrevWeek(ew) ==
  LET y == ew \div 100
      w == ew % 100
  IN  IF w > 1 THEN ew - 1 ELSE (y - 1) * 100 + WeeksInYear(y - 1)

RECURSIVE add_epiweeks(_, _)
add_epiweeks(ew, i) ==
  IF i = 0 THEN ew
  ELSE IF i > 0 THEN add_epiweeks(NextWeek(ew), i - 1)
  ELSE add_epiweeks(PrevWeek(ew), i + 1)

RECURSIVE range_epiweeks(_, _, _)
range_epiweeks(start, stop, inclusive) ==
  IF start < stop \/ (inclusive /\ start = stop)
  THEN <<start>> \o range_epiweeks(add_epiweeks(start, 1), stop, inclusive)
  ELSE <<>>

-----------------------------------------------------------------------------
(* Analysis (src/doc/plos/code/analyze.py): series extraction *)

\* result[k] = v on a dict
Put(result, k, v) == (k :> v) @@ result

\* what a call hands back: a value, or the exception it raised
Return(v) == [raised |-> "", value |-> v]

Raise(e) == [raised |-> e, value |-> EmptyDict]

NoCall == [name |-> "none"]

RECURSIVE TruthLoop(_, _, _)
TruthLoop(rows, loc, result) ==
  IF rows = <<>> THEN result
  ELSE LET week == Head(rows)[1]
           place == Head(rows)[2]
           value == Head(rows)[3]
       IN  TruthLoop(Tail(rows), loc,
                     IF place = loc THEN Put(result, week, value) ELSE result)

get_truth(loc) == TruthLoop(data.fluview, loc, EmptyDict)

RECURSIVE SensorLoop(_, _, _, _)
SensorLoop(rows, name, loc, result) ==
  IF rows = <<>> THEN result
  ELSE LET week == Head(rows)[1]
           sensor == Head(rows)[2]
           place == Head(rows)[3]
           value == Head(rows)[4]
       IN  SensorLoop(Tail(rows), name, loc,
                      IF sensor = name /\ place = loc
                      THEN Put(result, week, value) ELSE result)

\* mutant of get_sensor: readings of every location, not only `loc`
get_sensor_any_place(name, loc) ==
  LET anyPlace == [i \in DOMAIN data.sensors |->
                     [data.sensors[i] EXCEPT ![3] = loc]]
  IN  SensorLoop(anyPlace, name, loc, EmptyDict)

get_sensor(name, loc) == SensorLoop(data.sensors, name, loc, EmptyDict)

\* mutant of Excluded: the threshold weeks themselves are dropped too
ExcludedInclusive(loc, week) ==
  (loc = "vi" /\ week <= 201327) \/ (loc = "pr" /\ week <= 201453)

\* the weeks get_experiment skips: nowcasts made without any sensor of the
\* location itself
Excluded(loc, week) ==
  (loc = "vi" /\ week < 201327) \/ (loc = "pr" /\ week < 201453)

RECURSIVE ExperimentLoop(_, _, _)
ExperimentLoop(rows, loc, result) ==
  IF rows = <<>> THEN result
  ELSE LET week == Head(rows)[1]
           place == Head(rows)[2]
           value == Head(rows)[3]
       IN  ExperimentLoop(Tail(rows), loc,
                          IF place = loc /\ ~Excluded(loc, week)
                          THEN Put(result, week, value) ELSE result)

\* 'nc_%s' % name
DatasetKey(name) == "nc_" \o name

get_experiment(name, loc) ==
  ExperimentLoop(data[DatasetKey(name)], loc, EmptyDict)

get_nowcast(loc) == get_experiment("vanilla", loc)

-----------------------------------------------------------------------------
(* Loaded datasets the analysis is run on *)

\* The rows of a loaded file: for at most n of the keys of `keys` (a list, in
\* file order), the key followed by one of the `tails` (the remaining
\* columns, already converted by load_everything). The files are dumps of
\* tables keyed by those columns, so no key occurs twice.
RECURSIVE RowsOf(_, _, _)
RowsOf(keys, K, f) ==
  IF K = {} THEN <<>>
  ELSE LET i == Min(K)
       IN  <<keys[i] \o f[i]>> \o RowsOf(keys, K \ {i}, [j \in K \ {i} |-> f[j]])

Tables(keys, tails, n) ==
  UNION {{RowsOf(keys, K, f) : f \in [K -> tails]} :
           K \in {S \in SUBSET DOMAIN keys : Cardinality(S) <= n}}

\* the database wrapper is not in use while the analysis runs
DbIdle ==
  /\ test_mode = TRUE
  /\ cnx = "none"
  /\ cur = "none"
  /\ committed = {}
  /\ pending = {}
  /\ nextId = 1
  /\ commits = 0
  /\ calls = <<>>
  /\ lastOp = "__init__"
  /\ passed = EmptyDict

-----------------------------------------------------------------------------
(* get_experiment / get_nowcast on loaded model nowcasts *)

MaxNcRows == 3

NcKeys ==
  << <<201326, "vi">>, <<201327, "vi">>, <<201452, "vi">>, <<201453, "vi">>,
     <<201326, "pr">>, <<201327, "pr">>, <<201452, "pr">>, <<201453, "pr">>,
     <<201326, "nat">>, <<201327, "nat">>, <<201452, "nat">>, <<201453, "nat">> >>

\* (value, std) columns
NcTails == {<<float(1), float(7)>>, <<float(2), float(7)>>}

NcLocations == {"vi", "pr", "nat"}

\* model names asked for; only "vanilla" is loaded
NcNames == {"vanilla", "ablation"}

InitExperiment ==
  /\ DbIdle
  /\ \E rows \in Tables(NcKeys, NcTails, MaxNcRows) :
       data = [fluview |-> <<>>, sensors |-> <<>>, nc_vanilla |-> rows]
  /\ call = NoCall
  /\ ret = Return(None)

CallExperiment ==
  \E name \in NcNames, loc \in NcLocations :
    /\ call' = [name |-> "get_experiment", model |-> name, loc |-> loc]
    /\ ret' = IF DatasetKey(name) \in DOMAIN data
              THEN Return(get_experiment(name, loc))
              ELSE Raise("KeyError")
    /\ UNCHANGED <<data, dbVars>>

CallNowcast ==
  \E loc \in NcLocations :
    /\ call' = [name |-> "get_nowcast", model |-> "vanilla", loc |-> loc]
    /\ ret' = Return(get_nowcast(loc))
    /\ UNCHANGED <<data, dbVars>>

NextExperiment == CallExperiment \/ CallNowcast

SpecExperiment == InitExperiment /\ [][NextExperiment]_vars

\* the stored rows of location loc
StoredAt(loc) == {row \in Range(data.nc_vanilla) : row[2] = loc}

\* the first week kept for a location (0: every week is kept)
FirstKeptWeek(loc) ==
  IF loc = "vi" THEN 201327 ELSE IF loc = "pr" THEN 201453 ELSE 0

\* C4: get_experiment(model, loc) on a loaded model holds exactly the stored
\* weeks of loc that are not below the location's threshold (201327 for vi,
\* 201453 for pr, none elsewhere), each with its raw stored value.
C4_ExperimentExclusion ==
  (call.name \in {"get_experiment", "get_nowcast"} /\ ret.raised = "") =>
    /\ DOMAIN ret.value =
         {row[1] : row \in {r \in StoredAt(call.loc) :
                               r[1] >= FirstKeptWeek(call.loc)}}
    /\ \A row \in StoredAt(call.loc) :
         row[1] \in DOMAIN ret.value => ret.value[row[1]] = row[3]

\* C4 witness: for vi, week 201326 is stored and dropped while the threshold
\* week 201327 itself is stored and returned
C4_Witness ==
  /\ call.name = "get_experiment"
  /\ call.loc = "vi"
  /\ ret.raised = ""
  /\ \E row \in StoredAt("vi") : row[1] = 201326
  /\ \E row \in StoredAt("vi") : row[1] = 201327
  /\ DOMAIN ret.value = {201327}

-----------------------------------------------------------------------------
(* get_truth / get_naive_nowcast on loaded ground truth *)

MaxTruthRows == 3

TruthKeys ==
  << <<201403, "nat">>, <<201452, "nat">>, <<201453, "nat">>,
     <<201501, "nat">>, <<201502, "nat">>,
     <<201403, "pa">>, <<201452, "pa">>, <<201453, "pa">>,
     <<201501, "pa">>, <<201502, "pa">> >>

TruthTails == {<<float(1)>>, <<float(2)>>}

TruthLocations == {"nat", "pa"}

\* the two conventional lags: Naive Oracle and Seasonal Naive
SupportedLags == {1, 52}

\* the lag of the naive nowcaster, set in the body of get_naive_nowcast
delta == 1

\* mutant of NaiveEw0: the previous week by integer subtraction
NaiveEw0Minus(ew1) == ew1 - delta

\* ew0 = Epiweek.add_epiweeks(ew1, -delta)
NaiveEw0(ew1) == add_epiweeks(ew1, -delta)

get_naive_nowcast(loc) ==
  LET truth == get_truth(loc)
      kept  == {ew1 \in DOMAIN truth : NaiveEw0(ew1) \in DOMAIN truth}
  IN  [ew1 \in kept |-> truth[NaiveEw0(ew1)]]

InitNaive ==
  /\ DbIdle
  /\ \E rows \in Tables(TruthKeys, TruthTails, MaxTruthRows) :
       data = [fluview |-> rows, sensors |-> <<>>, nc_vanilla |-> <<>>]
  /\ call = NoCall
  /\ ret = Return(None)

CallTruth ==
  \E loc \in TruthLocations :
    /\ call' = [name |-> "get_truth", args |-> <<loc>>]
    /\ ret' = Return(get_truth(loc))
    /\ UNCHANGED <<data, dbVars>>

\* get_naive_nowcast(self, loc): the call as the signature allows it
CallNaive ==
  \E loc \in TruthLocations :
    /\ call' = [name |-> "get_naive_nowcast", args |-> <<loc>>]
    /\ ret' = Return(get_naive_nowcast(loc))
    /\ UNCHANGED <<data, dbVars>>

\* a caller passing a lag: the method takes one positional argument, so
\* Python raises TypeError before the body runs
CallNaiveWithLag ==
  \E loc \in TruthLocations, lag \in SupportedLags :
    /\ call' = [name |-> "get_naive_nowcast", args |-> <<loc, lag>>]
    /\ ret' = Raise("TypeError")
    /\ UNCHANGED <<data, dbVars>>

NextNaive == CallTruth \/ CallNaive \/ CallNaiveWithLag

SpecNaive == InitNaive /\ [][NextNaive]_vars

\* the stored truth rows of location loc
TruthAt(loc) == {row \in Range(data.fluview) : row[2] = loc}

\* w -> truth(loc)[w - lag] for the weeks w that have both w and the epiweek
\* lag weeks before w in the stored truth of loc
IsLagged(series, loc, lag) ==
  /\ DOMAIN series =
       {row[1] : row \in {r \in TruthAt(loc) :
                             \E q \in TruthAt(loc) :
                                q[1] = add_epiweeks(r[1], -lag)}}
  /\ \A w \in DOMAIN series : \A q \in TruthAt(loc) :
       q[1] = add_epiweeks(w, -lag) => series[w] = q[3]

\* C5 (as stated): the naive nowcast takes the lag from the caller, for lag 1
\* and lag 52 alike, and returns truth shifted by that lag.
C5_NaiveTakesLag ==
  (call.name = "get_naive_nowcast" /\ Len(call.args) = 2) =>
    /\ ret.raised = ""
    /\ IsLagged(ret.value, call.args[1], call.args[2])

\* C5 (amended): get_naive_nowcast takes only the location (a call that
\* passes a lag raises TypeError); its lag is the fixed delta = 1, and it
\* returns truth shifted by one epiweek, with year rollover.
C5_NaiveFixedLagOne ==
  call.name = "get_naive_nowcast" =>
    IF Len(call.args) = 2 THEN ret.raised = "TypeError"
    ELSE ret.raised = "" /\ IsLagged(ret.value, call.args[1], 1)

\* C5 witness: truth has the last week of 2014 (week 53) and the first week
\* of 2015 with different values, and naive(201501) is the value of 201453
C5_Witness ==
  /\ call.name = "get_naive_nowcast"
  /\ call.args = <<"nat">>
  /\ ret.raised = ""
  /\ <<201453, "nat", float(2)>> \in Range(data.fluview)
  /\ <<201501, "nat", float(1)>> \in Range(data.fluview)
  /\ <<201403, "nat", float(1)>> \in Range(data.fluview)
  /\ DOMAIN ret.value = {201501}
  /\ ret.value[201501] = float(2)

-----------------------------------------------------------------------------
(* get_sensor / get_alternative_nowcast on loaded sensor readings *)

MaxSensorRows == 3

\* FluDataSource.SENSORS: the registered sensor names, in order
SENSORS == <<"gft", "twtr", "wiki">>

\* (week, sensor, place) of the readings; "cdc" is a sensor that is in the
\* file but not registered
EnsSensorKeys ==
  << <<201501, "gft", "nat">>, <<201501, "twtr", "nat">>,
     <<201501, "wiki", "nat">>, <<201501, "cdc", "nat">>,
     <<201502, "gft", "nat">>, <<201502, "twtr", "nat">>,
     <<201501, "gft", "pa">>, <<201501, "twtr", "pa">>,
     <<201501, "wiki", "pa">>, <<201502, "gft", "pa">> >>

EnsTruthKeys == << <<201501, "nat">>, <<201502, "nat">>, <<201501, "pa">> >>

SensorTails == {<<float(1)>>, <<float(2)>>}

\* values = [sensors[sensor][ew] for the registered sensors that have ew]
RECURSIVE ValuesLoop(_, _, _)
ValuesLoop(names, sensors, ew) ==
  IF names = <<>> THEN <<>>
  ELSE (IF ew \in DOMAIN sensors[Head(names)]
        THEN <<sensors[Head(names)][ew]>> ELSE <<>>)
       \o ValuesLoop(Tail(names), sensors, ew)

get_alternative_nowcast(loc) ==
  LET sensors == [sensor \in Range(SENSORS) |-> get_sensor(sensor, loc)]
      truth   == get_truth(loc)
      kept    == {ew \in DOMAIN truth : ValuesLoop(SENSORS, sensors, ew) # <<>>}
  IN  [ew \in kept |-> np_median(ValuesLoop(SENSORS, sensors, ew))]

InitEnsemble ==
  /\ DbIdle
  /\ \E truthRows \in Tables(EnsTruthKeys, {<<float(1)>>}, MaxTruthRows),
        sensorRows \in Tables(EnsSensorKeys, SensorTails, MaxSensorRows) :
       data = [fluview |-> truthRows, sensors |-> sensorRows,
               nc_vanilla |-> <<>>]
  /\ call = NoCall
  /\ ret = Return(None)

CallSensor ==
  \E name \in Range(SENSORS), loc \in TruthLocations :
    /\ call' = [name |-> "get_sensor", args |-> <<name, loc>>]
    /\ ret' = Return(get_sensor(name, loc))
    /\ UNCHANGED <<data, dbVars>>

CallAlternative ==
  \E loc \in TruthLocations :
    /\ call' = [name |-> "get_alternative_nowcast", args |-> <<loc>>]
    /\ ret' = Return(get_alternative_nowcast(loc))
    /\ UNCHANGED <<data, dbVars>>

NextEnsemble == CallSensor \/ CallAlternative

SpecEnsemble == InitEnsemble /\ [][NextEnsemble]_vars

\* the stored readings of registered sensors at week w and location loc
ReadingsAt(w, loc) ==
  {row \in Range(data.sensors) :
     row[1] = w /\ row[3] = loc /\ row[2] \in Range(SENSORS)}

\* m is the median of the values of the readings R: the mean of a lower and
\* an upper middle value, which coincide for an odd count
IsMedian(m, R) ==
  LET n == Cardinality(R)
      below(x) == Cardinality({r \in R : FLess(r[4], x)})
      above(x) == Cardinality({r \in R : FLess(x, r[4])})
  IN  \E lo, hi \in R :
        /\ below(lo[4]) <= ((n + 1) \div 2) - 1
        /\ above(lo[4]) <= n \div 2
        /\ below(hi[4]) <= n \div 2
        /\ above(hi[4]) <= ((n + 1) \div 2) - 1
        /\ FAdd(m, m) = FAdd(lo[4], hi[4])

\* C6: w is a key of the ensemble nowcast of loc exactly when truth(loc) has
\* w and some registered sensor has a reading at (w, loc); the value is the
\* median of exactly those readings.
C6_EnsembleMedian ==
  call.name = "get_alternative_nowcast" =>
    LET loc == call.args[1] IN
    /\ DOMAIN ret.value =
         {row[1] : row \in {r \in TruthAt(loc) : ReadingsAt(r[1], loc) # {}}}
    /\ \A w \in DOMAIN ret.value : IsMedian(ret.value[w], ReadingsAt(w, loc))

\* C6 witness: two registered sensors read 1 and 2 at (201501, nat), so the
\* median is 3/2, while a reading of another location is in the file and
\* week 201502 has no truth entry
C6_Witness ==
  /\ call.name = "get_alternative_nowcast"
  /\ call.args = <<"nat">>
  /\ Cardinality(ReadingsAt(201501, "nat")) = 2
  /\ ReadingsAt(201501, "pa") # {}
  /\ DOMAIN ret.value = {201501}
  /\ ret.value[201501] = Fin(3, 2)

-----------------------------------------------------------------------------
(* get_heatmap_data on loaded sensor readings *)

MaxHeatRows == 4

HeatSensorKeys ==
  << <<201452, "gft", "nat">>, <<201453, "gft", "nat">>,
     <<201501, "gft", "nat">>, <<201502, "gft", "nat">>,
     <<201452, "twtr", "nat">>, <<201453, "twtr", "nat">>,
     <<201501, "twtr", "nat">>, <<201502, "twtr", "nat">>,
     <<201452, "wiki", "nat">>, <<201453, "wiki", "nat">>,
     <<201501, "wiki", "nat">>, <<201502, "wiki", "nat">>,
     <<201451, "wiki", "pa">> >>

\* mutant of HeatmapBounds: sensors without data are skipped, and only an
\* empty list of bounds raises
HeatmapBoundsSkipEmpty ==
  LET all == UNION {DOMAIN get_sensor(SENSORS[i], "nat") : i \in DOMAIN SENSORS}
  IN  IF all = {} THEN Raise("ValueError") ELSE Return(<<Min(all), Max(all)>>)

\* the first loop of get_heatmap_data: w0s/w1s collect min(x) and max(x) of
\* every registered sensor's series x, and min/max of an empty dict raise
\* ValueError; then w0, w1 = min(w0s), max(w1s)
HeatmapBounds ==
  LET x(i) == get_sensor(SENSORS[i], "nat")
  IN  IF \E i \in DOMAIN SENSORS : x(i) = EmptyDict THEN Raise("ValueError")
      ELSE LET w0s == [i \in DOMAIN SENSORS |-> Min(DOMAIN x(i))]
               w1s == [i \in DOMAIN SENSORS |-> Max(DOMAIN x(i))]
           IN  Return(<<Min(Range(w0s)), Max(Range(w1s))>>)

\* mutant of HeatmapCell: the matrix starts as zeros
HeatmapCellZero(x, ew) == IF ew \in DOMAIN x THEN x[ew] ELSE float(0)

\* data[i, j]: np.ones(...) * -1, overwritten by x[ew] where the sensor has ew
HeatmapCell(x, ew) == IF ew \in DOMAIN x THEN x[ew] ELSE float(-1)

get_heatmap_data ==
  LET b == HeatmapBounds
  IN  IF b.raised # "" THEN b
      ELSE LET weeks == range_epiweeks(b.value[1], b.value[2], TRUE)
               matrix == [i \in DOMAIN SENSORS |->
                           [j \in DOMAIN weeks |->
                              HeatmapCell(get_sensor(SENSORS[i], "nat"),
                                          weeks[j])]]
           IN  Return(<<matrix, SENSORS, weeks>>)

InitHeatmap ==
  /\ DbIdle
  /\ \E sensorRows \in Tables(HeatSensorKeys, SensorTails, MaxHeatRows) :
       data = [fluview |-> <<>>, sensors |-> sensorRows, nc_vanilla |-> <<>>]
  /\ call = NoCall
  /\ ret = Return(None)

CallHeatmap ==
  /\ call' = [name |-> "get_heatmap_data", args |-> <<>>]
  /\ ret' = get_heatmap_data
  /\ UNCHANGED <<data, dbVars>>

NextHeatmap == CallHeatmap

SpecHeatmap == InitHeatmap /\ [][NextHeatmap]_vars

\* the stored national readings of the i-th registered sensor
HeatReadings(i) ==
  {row \in Range(data.sensors) : row[2] = SENSORS[i] /\ row[3] = "nat"}

AllHeatReadings == UNION {HeatReadings(i) : i \in DOMAIN SENSORS}

\* C7: when every registered sensor has data, the week axis is the full
\* inclusive epiweek range from the smallest to the largest week of any
\* sensor, in increasing order with year rollover, and cell (i, j) is sensor
\* i's value at week j, or -1 where the sensor has no reading.
C7_HeatmapMatrix ==
  (call.name = "get_heatmap_data"
     /\ \A i \in DOMAIN SENSORS : HeatReadings(i) # {}) =>
    /\ ret.raised = ""
    /\ LET matrix == ret.value[1]
           labels == ret.value[2]
           weeks  == ret.value[3]
       IN  /\ labels = SENSORS
           /\ weeks # <<>>
           /\ \A row \in AllHeatReadings : weeks[1] <= row[1]
           /\ \E row \in AllHeatReadings : weeks[1] = row[1]
           /\ \A row \in AllHeatReadings : weeks[Len(weeks)] >= row[1]
           /\ \E row \in AllHeatReadings : weeks[Len(weeks)] = row[1]
           /\ \A j \in 1..(Len(weeks) - 1) : weeks[j + 1] = NextWeek(weeks[j])
           /\ DOMAIN matrix = DOMAIN SENSORS
           /\ \A i \in DOMAIN SENSORS :
                /\ DOMAIN matrix[i] = DOMAIN weeks
                /\ \A j \in DOMAIN weeks :
                     /\ \A row \in HeatReadings(i) :
                          row[1] = weeks[j] => matrix[i][j] = row[4]
                     /\ (\A row \in HeatReadings(i) : row[1] # weeks[j])
                          => matrix[i][j] = Fin(-1, 1)

\* C7 witness: the sensors' weeks straddle the 53-week year 2014, the axis is
\* 201452, 201453, 201501, 201502, and week 201501 is absent from every sensor
C7_Witness ==
  /\ call.name = "get_heatmap_data"
  /\ ret.raised = ""
  /\ ret.value[3] = <<201452, 201453, 201501, 201502>>
  /\ \A row \in AllHeatReadings : row[1] # 201501
  /\ \A i \in DOMAIN SENSORS : ret.value[1][i][3] = Fin(-1, 1)
  /\ ret.value[1][1][1] = float(2)

\* C10 (as stated): the build fails exactly when no registered sensor has
\* data; with at least one sensor with data it succeeds, and a sensor
\* without data gets a row of -1.
C10_FailsOnlyWithoutAnyData ==
  call.name = "get_heatmap_data" =>
    /\ (ret.raised # "") <=> (AllHeatReadings = {})
    /\ ret.raised = "" =>
         \A i \in DOMAIN SENSORS : HeatReadings(i) = {} =>
           \A j \in DOMAIN ret.value[3] : ret.value[1][i][j] = Fin(-1, 1)

\* C10 (amended): the build fails (ValueError) exactly when some registered
\* sensor has no data at the location, and succeeds only when every
\* registered sensor has data.
C10_FailsWhenSomeSensorEmpty ==
  call.name = "get_heatmap_data" =>
    /\ (ret.raised = "ValueError") <=>
         (\E i \in DOMAIN SENSORS : HeatReadings(i) = {})
    /\ ret.raised \in {"", "ValueError"}

\* C10 witness: two sensors have data, the third has none, and the build
\* raised
C10_Witness ==
  /\ call.name = "get_heatmap_data"
  /\ HeatReadings(1) # {}
  /\ HeatReadings(2) # {}
  /\ HeatReadings(3) = {}
  /\ ret.raised = "ValueError"

-----------------------------------------------------------------------------
(* get_metrics *)

\* series values range over 1..MaxMetricValue
MaxMetricValue == 2

MetricWeeks == {201452, 201453, 201501}

MetricValues == {float(v) : v \in 1..MaxMetricValue}

\* every series on MetricWeeks
Series == UNION {[K -> MetricValues] : K \in SUBSET MetricWeeks}

\* the `naive` argument: None, or a series
NoNaive == [given |-> FALSE, series |-> EmptyDict]

Naive(series) == [given |-> TRUE, series |-> series]

\* the first part of get_metrics: n, rmse and mae over the common weeks
Metrics(truth, nowcast) ==
  LET common_weeks == sorted(DOMAIN truth \cap DOMAIN nowcast)
      a == [i \in DOMAIN common_weeks |-> truth[common_weeks[i]]]
      b == [i \in DOMAIN common_weeks |-> nowcast[common_weeks[i]]]
  IN  [n    |-> Len(common_weeks),
       rmse |-> np_sqrt(np_mean([i \in DOMAIN a |-> FSquare(FSub(a[i], b[i]))])),
       mae  |-> np_mean([i \in DOMAIN a |-> FAbs(FSub(a[i], b[i]))])]

\* mutant of TrimmedNaive: the baseline is not trimmed to the nowcast's weeks
UntrimmedNaive(nowcast, naive) == naive

\* trimmed_naive: naive restricted to nowcast.keys() & naive.keys()
TrimmedNaive(nowcast, naive) ==
  [ew \in DOMAIN nowcast \cap DOMAIN naive |-> naive[ew]]

get_metrics(truth, nowcast, naive) ==
  LET result == Metrics(truth, nowcast)
  IN  IF naive.given
      THEN LET result_naive ==
                 Metrics(truth, TrimmedNaive(nowcast, naive.series))
           IN  [n     |-> result.n,
                rmse  |-> result.rmse,
                mae   |-> result.mae,
                mase  |-> np_div(result.mae, result_naive.mae),
                rmsse |-> np_div(result.rmse, result_naive.rmse)]
      ELSE result

\* a call whose arguments are fixed and whose body has not run yet
Pending == [raised |-> "pending", value |-> EmptyDict]

\* the calls get_metrics(truth, nowcast) and get_metrics(truth, nowcast,
\* naive=naive) on every choice of series
InitMetrics ==
  /\ DbIdle
  /\ data = [fluview |-> <<>>, sensors |-> <<>>, nc_vanilla |-> <<>>]
  /\ \E truth \in Series, nowcast \in Series,
        naive \in {NoNaive} \cup {Naive(x) : x \in Series} :
       call = [name |-> "get_metrics", truth |-> truth, nowcast |-> nowcast,
               naive |-> naive]
  /\ ret = Pending

\* get_metrics(truth, nowcast): no baseline
CallMetrics ==
  /\ ret.raised = "pending"
  /\ ~call.naive.given
  /\ ret' = Return(get_metrics(call.truth, call.nowcast, call.naive))
  /\ UNCHANGED <<data, call, dbVars>>

\* get_metrics(truth, nowcast, naive=naive)
CallMetricsNaive ==
  /\ ret.raised = "pending"
  /\ call.naive.given
  /\ ret' = Return(get_metrics(call.truth, call.nowcast, call.naive))
  /\ UNCHANGED <<data, call, dbVars>>

NextMetrics == CallMetrics \/ CallMetricsNaive

SpecMetrics == InitMetrics /\ [][NextMetrics]_vars

\* the sum over the weeks W of f(estimate[w] - truth[w])
RECURSIVE ErrorSum(_, _, _, _)
ErrorSum(W, truth, estimate, square) ==
  IF W = {} THEN Fin(0, 1)
  ELSE LET w == CHOOSE x \in W : TRUE
           e == FSub(estimate[w], truth[w])
       IN  FAdd(IF square THEN FSquare(e) ELSE FAbs(e),
                ErrorSum(W \ {w}, truth, estimate, square))

\* mean absolute error, and mean squared error, over the weeks W (W # {})
MaeOver(W, truth, estimate) ==
  LET t == ErrorSum(W, truth, estimate, FALSE)
  IN  Fin(t.n, t.d * Cardinality(W))

MseOver(W, truth, estimate) ==
  LET t == ErrorSum(W, truth, estimate, TRUE)
  IN  Fin(t.n, t.d * Cardinality(W))

\* x / y for y # 0, and its square root
Quotient(x, y) == Fin(x.n * y.d, x.d * y.n)

RootOf(x) == [x EXCEPT !.r = 2]

\* the weeks the estimate's error is averaged over
EstimateWeeks == DOMAIN call.truth \cap DOMAIN call.nowcast

\* the weeks the baseline's error is averaged over: those of the baseline
\* restricted to the estimate's weeks, met with truth
BaselineWeeks ==
  DOMAIN call.truth \cap (DOMAIN call.nowcast \cap DOMAIN call.naive.series)

Returned == call.name = "get_metrics" /\ ret.raised # "pending"

\* C1: with a baseline, mase = mae(T,E) / mae(T,B') and
\* rmsse = rmse(T,E) / rmse(T,B'), B' being B restricted to
\* keys(E) & keys(B); each error is averaged over the weeks its own two
\* series share (stated where both week sets are non-empty and the baseline
\* error is not zero, so that the quotients are defined).
C1_SkillScores ==
  (Returned /\ call.naive.given /\ EstimateWeeks # {} /\ BaselineWeeks # {}
     /\ MaeOver(BaselineWeeks, call.truth, call.naive.series).n # 0) =>
    LET T == call.truth
        E == call.nowcast
        B == call.naive.series
    IN  /\ ret.raised = ""
        /\ ret.value.n = Cardinality(EstimateWeeks)
        /\ ret.value.mae = MaeOver(EstimateWeeks, T, E)
        /\ ret.value.rmse = RootOf(MseOver(EstimateWeeks, T, E))
        /\ ret.value.mase =
             Quotient(MaeOver(EstimateWeeks, T, E), MaeOver(BaselineWeeks, T, B))
        /\ ret.value.rmsse =
             RootOf(Quotient(MseOver(EstimateWeeks, T, E),
                             MseOver(BaselineWeeks, T, B)))

\* C1 witness: the estimate's error is averaged over three weeks and the
\* baseline's over one of them only; mase = (1/3) / 1
C1_Witness ==
  /\ Returned
  /\ call.naive.given
  /\ EstimateWeeks = MetricWeeks
  /\ BaselineWeeks = {201453}
  /\ DOMAIN call.naive.series = {201453}
  /\ ret.value.mase = Fin(1, 3)
  /\ ret.value.rmsse = RootOf(Fin(1, 3))

\* C2: get_metrics raises EmptyIntersectionError whenever the two series it
\* compares share no epiweek, at the top level and in the recursive call on
\* the restricted baseline; it never returns n = 0 with NaN rmse or mae.
C2_EmptyIntersectionRaises ==
  Returned =>
    /\ (EstimateWeeks = {} \/ (call.naive.given /\ BaselineWeeks = {}))
         => ret.raised = "EmptyIntersectionError"
    /\ ret.raised = "" =>
         (ret.value.n # 0 /\ ret.value.rmse.k # "nan" /\ ret.value.mae.k # "nan")

\* C3: with a baseline whose restricted error against truth is exactly
\* zero (over a non-empty set of weeks), get_metrics raises
\* DegenerateBaselineError instead of returning an infinite or NaN mase or
\* rmsse; the report's call get_metrics(t, n_naive, naive=n_naive) is the
\* case nowcast = naive.
C3_DegenerateBaselineRaises ==
  (Returned /\ call.naive.given /\ EstimateWeeks # {} /\ BaselineWeeks # {}
     /\ MaeOver(BaselineWeeks, call.truth, call.naive.series).n = 0) =>
    /\ ret.raised = "DegenerateBaselineError"
    /\ ret.raised = "" =>
         (ret.value.mase.k = "fin" /\ ret.value.rmsse.k = "fin")

-----------------------------------------------------------------------------
(* NowcastDatabase (src/src/util/database.py) *)

\* bounds of the database model
MaxId == 3
MaxCommits == 2

\* arguments the callers of insert are drawn from
InsertKeys == {<<201501, "nat">>, <<201502, "pa">>}
InsertValues == {3, 16777217}
InsertStdevs == {1}
\* values of round(time.time()) the clock is drawn from
Times == {1500000000, 1512345678}

\* The `value` and `std` columns are MySQL `float`: 32-bit floats with a 24-bit
\* significand. Ulp(x, 1) is the spacing of such floats around x >= 0.
RECURSIVE Ulp(_, _)
Ulp(x, q) == IF x \div q < Pow2(24) THEN q ELSE Ulp(x, 2 * q)

\* what a `float` column keeps of the number x >= 0 (round to nearest, ties to even)
F32(x) ==
  LET q  == Ulp(x, 1)
      lo == (x \div q) * q
      r  == x - lo
  IN  IF 2 * r < q THEN lo
      ELSE IF 2 * r > q THEN lo + q
      ELSE IF (x \div q) % 2 = 0 THEN lo ELSE lo + q

\* the key of a record that "ON DUPLICATE KEY" and the docstring of insert
\* ("an existing record with the same key") refer to
UniqueKey(r) == <<r.epiweek, r.location>>

\* SQL_INSERT executed with `args` on the table as the connection sees it;
\* `id` is the auto_increment value a new record gets
SQL_INSERT(table, id, args) ==
  LET dup == {r \in table : UniqueKey(r) = <<args[1], args[2]>>}
  IN  IF dup = {}
      THEN table \cup {[id |-> id, epiweek |-> args[1], location |-> args[2],
                        value |-> F32(args[3]), std |-> F32(args[4])]}
      ELSE {IF r \in dup
            THEN [r EXCEPT !.value = F32(args[5]), !.std = F32(args[6])]
            ELSE r : r \in table}

\* mutant of InsertArgs: the two update parameters in the wrong order
InsertArgsSwapped(epiweek, location, value, stdev) ==
  <<epiweek, location, value, stdev, stdev, value>>

\* insert: args = (epiweek, location, value, stdev, value, stdev)
InsertArgs(epiweek, location, value, stdev) ==
  <<epiweek, location, value, stdev, value, stdev>>

\* mutant of DisconnectCalls: commits whatever test_mode says
DisconnectCallsAlwaysCommit(tm) == <<"cur.close", "cnx.commit", "cnx.close">>

\* disconnect: the connector calls it makes, in order
DisconnectCalls(tm) ==
  <<"cur.close">>
  \o (IF tm THEN <<"print">> ELSE <<"cnx.commit">>)
  \o <<"cnx.close">>

\* The effect of one connector call on the connection and the database.
\* A commit makes the connection's view the committed table; closing the
\* connection discards what was not committed; a commit on a connection that
\* is not open commits nothing.
Driver(s, c) ==
  IF c = "cur.close" THEN [s EXCEPT !.cur = "closed"]
  ELSE IF c = "cnx.commit" /\ s.cnx = "open"
    THEN [s EXCEPT !.committed = s.pending, !.commits = s.commits + 1]
  ELSE IF c = "cnx.close"
    THEN [s EXCEPT !.cnx = "closed", !.pending = s.committed]
  ELSE s

RECURSIVE RunCalls(_, _)
RunCalls(s, cs) ==
  IF cs = <<>> THEN s ELSE RunCalls(Driver(s, Head(cs)), Tail(cs))

DoInsert(op, epiweek, location, value, stdev) ==
  LET args == InsertArgs(epiweek, location, value, stdev)
      fresh == \A r \in pending : UniqueKey(r) # <<epiweek, location>>
  IN  /\ cur = "open"
      /\ fresh => nextId <= MaxId
      /\ pending' = SQL_INSERT(pending, nextId, args)
      /\ nextId' = IF fresh THEN nextId + 1 ELSE nextId
      /\ passed' = (<<epiweek, location>> :> <<value, stdev>>) @@ passed
      /\ calls' = <<"cur.execute">>
      /\ lastOp' = op
      /\ UNCHANGED <<test_mode, cnx, cur, committed, commits>>

DoConnect(op) ==
  /\ cnx' = "open"
  /\ cur' = "open"
  /\ pending' = committed
  /\ passed' = EmptyDict
  /\ calls' = <<"connector.connect", "cnx.cursor">>
  /\ lastOp' = op
  /\ UNCHANGED <<test_mode, committed, nextId, commits>>

DoDisconnect(op) ==
  LET cs == DisconnectCalls(test_mode)
      s  == RunCalls([cnx |-> cnx, cur |-> cur, committed |-> committed,
                      pending |-> pending, commits |-> commits], cs)
  IN  /\ cnx = "open"
      /\ s.commits <= MaxCommits
      /\ cnx' = s.cnx
      /\ cur' = s.cur
      /\ committed' = s.committed
      /\ pending' = s.pending
      /\ commits' = s.commits
      /\ passed' = EmptyDict
      /\ calls' = cs
      /\ lastOp' = op
      /\ UNCHANGED <<test_mode, nextId>>

connect == DoConnect("connect") /\ UNCHANGED anVars

disconnect == DoDisconnect("disconnect") /\ UNCHANGED anVars

insert ==
  \E k \in InsertKeys, value \in InsertValues, stdev \in InsertStdevs :
    DoInsert("insert", k[1], k[2], value, stdev) /\ UNCHANGED anVars

set_last_update_time ==
  \E t \in Times :
    LET a == t \div 100000
        b == t % 100000
    IN  DoInsert("set_last_update_time", 0, "updated", a, b) /\ UNCHANGED anVars

enter == DoConnect("__enter__") /\ UNCHANGED anVars

exit == DoDisconnect("__exit__") /\ UNCHANGED anVars

AnalysisIdle ==
  /\ data = [fluview |-> <<>>, sensors |-> <<>>, nc_vanilla |-> <<>>]
  /\ call = NoCall
  /\ ret = Return(None)

InitDb ==
  /\ AnalysisIdle
  /\ test_mode \in BOOLEAN
  /\ cnx = "none"
  /\ cur = "none"
  /\ committed \in {{}, {[id |-> 1, epiweek |-> 201501, location |-> "nat",
                          value |-> 2, std |-> 1]}}
  /\ pending = committed
  /\ nextId = Cardinality(committed) + 1
  /\ commits = 0
  /\ calls = <<>>
  /\ lastOp = "__init__"
  /\ passed = EmptyDict

NextDb ==
  \/ connect
  \/ disconnect
  \/ insert
  \/ set_last_update_time
  \/ enter
  \/ exit

SpecDb == InitDb /\ [][NextDb]_vars

\* records of the connection's view of the table that carry key k
RecordsOf(k) == {r \in pending : UniqueKey(r) = k}

\* the part of C8 that does not depend on what the columns keep of a number:
\* one record per key, and keys not inserted on this connection are untouched
UpsertShape ==
  /\ \A r1, r2 \in pending : UniqueKey(r1) = UniqueKey(r2) => r1 = r2
  /\ \A k \in DOMAIN passed : Cardinality(RecordsOf(k)) = 1
  /\ \A r \in pending : UniqueKey(r) \notin DOMAIN passed => r \in committed
  /\ \A r \in committed : UniqueKey(r) \notin DOMAIN passed => r \in pending

\* C8 (as stated): while a connection is open, the table holds at most one
\* record per (epiweek, location), the record of every key inserted on the
\* connection holds exactly the (value, stdev) pair of the most recent insert
\* for that key, and the records of all other keys are unchanged.
C8_RecordIsPassedPair ==
  cnx = "open" =>
    /\ UpsertShape
    /\ \A k \in DOMAIN passed : \A r \in RecordsOf(k) :
         <<r.value, r.std>> = passed[k]

\* C8 (amended): as above, but the record holds the pair of the most recent
\* insert as 32-bit floats: each number rounded to the nearest float the
\* `float` columns can represent.
C8_RecordIsPassedPairAsFloat ==
  cnx = "open" =>
    /\ UpsertShape
    /\ \A k \in DOMAIN passed : \A r \in RecordsOf(k) :
         <<r.value, r.std>> = <<F32(passed[k][1]), F32(passed[k][2])>>

\* C8 witness: a key was inserted twice on the connection with different
\* pairs (the second insert updated the record), next to the record of
\* another key and the timestamp record.
C8_Witness ==
  /\ cnx = "open"
  /\ lastOp = "insert"
  /\ nextId = 3
  /\ Cardinality(pending) = 2
  /\ <<201501, "nat">> \in DOMAIN passed
  /\ <<0, "updated">> \in DOMAIN passed
  /\ \E r \in committed : UniqueKey(r) = <<201501, "nat">> /\ r \notin pending

\* a step of disconnect (or __exit__): the only steps that close a connection
IsDisconnectStep == cnx = "open" /\ cnx' = "closed"

\* C9: in test mode no step ever commits; otherwise a commit happens only in
\* disconnect/__exit__, which commits the outstanding changes exactly once,
\* after closing the cursor and before closing the connection.
C9_CommitDiscipline ==
  [][ /\ test_mode => (commits' = commits /\ committed' = committed)
      /\ ~IsDisconnectStep => (commits' = commits /\ committed' = committed)
      /\ (IsDisconnectStep /\ ~test_mode) =>
           /\ lastOp' \in {"disconnect", "__exit__"}
           /\ commits' = commits + 1
           /\ committed' = pending
           /\ calls' = <<"cur.close", "cnx.commit", "cnx.close">>
      /\ (IsDisconnectStep /\ test_mode) => "cnx.commit" \notin Range(calls')
    ]_vars

\* C9 witness: outside test mode a disconnect has committed an inserted record
C9_Witness ==
  /\ ~test_mode
  /\ lastOp \in {"disconnect", "__exit__"}
  /\ commits = 1
  /\ calls = <<"cur.close", "cnx.commit", "cnx.close">>
  /\ \E r \in committed : r.location = "updated"

=============================================================================
